---- MODULE Spec2Model ----
(***************************************************************************)
(* Model of pkg/helm/helm.go: the install (Apply) and upgrade (Upgrade)    *)
(* operations and the repository index synchronisation (repoAdd) they run  *)
(* before locating the chart.                                              *)
(*                                                                         *)
(* Each process is one CLI invocation.  The processes share the repository *)
(* index file (settings.RepositoryConfig) and the advisory lock on its     *)
(* sibling .lock file.  One action is one statement of repoAdd that reads  *)
(* or writes shared state, or one of its return paths.                     *)
(***************************************************************************)
EXTENDS Integers, Sequences, FiniteSets, TLC

\* ------------------------------------------------------------------ bounds
\* Number of Apply/Upgrade calls made in one run, over all processes.
MaxCalls == 2

\* --------------------------------------------------------------- constants
\* context.WithTimeout(context.Background(), 30*time.Second)
LockTimeoutSec == 30
\* fileLock.TryLockContext(lockCtx, time.Second)
RetryDelaySec == 1

Procs == {"p1", "p2"}
Names == {"stable", "extra"}
URLs == {"u1", "u2"}
NoProc == "none"

VARIABLES
    file,       \* the repository index file on disk
    holder,     \* the process holding the advisory lock on the .lock file, or NoProc
    pc,         \* each process's position in Apply/Upgrade/repoAdd
    entry,      \* c: the repo.Entry built from h.RepoName and h.RepoURL
    locked,     \* repoAdd's local `locked`
    waited,     \* retry delays a process has slept inside TryLockContext
    b,          \* repoAdd's local `b`: what os.ReadFile returned
    f,          \* repoAdd's local `f`: the unmarshalled repo.File
    ret,        \* the value repoAdd returned to the current operation
    opRet,      \* the value the last Apply/Upgrade returned
    calls,      \* operations started so far
    last        \* the entry of a process's previous repoAdd and whether it
                \* returned nil ("nil") or an error ("err")

vars == <<file, holder, pc, entry, locked, waited, b, f, ret,
          opRet, calls, last>>

\* ------------------------------------------------------------ data model
\* repo.Entry{Name, URL}
Entry(n, u) == [name |-> n, url |-> u]
NoEntry == [name |-> "", url |-> ""]

\* File contents.  kind "missing": no such file; "corrupt": bytes that are
\* no YAML document of a repo.File; "yaml": a marshalled repo.File whose
\* Repositories are `entries`.
MissingFile == [kind |-> "missing", entries |-> <<>>]
CorruptFile == [kind |-> "corrupt", entries |-> <<>>]
YamlFile(es) == [kind |-> "yaml", entries |-> es]

NoLast == [name |-> "", url |-> "", ret |-> "none"]

\* Has with the wrong field compared.
Has_ByURL(es, n) == \E i \in 1..Len(es) : es[i].url = n

\* repo.File.Has(name)
Has(es, n) == \E i \in 1..Len(es) : es[i].name = n

\* repo.File.Update(&c): replace the entries named c.Name, append otherwise.
Update(es, c) ==
    IF Has(es, c.name)
    THEN [i \in 1..Len(es) |-> IF es[i].name = c.name THEN c ELSE es[i]]
    ELSE Append(es, c)

\* yaml.Unmarshal(b, &f): nil bytes (missing file) leave f empty.
Unmarshal(bytes) == IF bytes.kind = "yaml" THEN bytes.entries ELSE <<>>

\* The index files a run starts from: none, an unparsable one, an empty
\* index and an index of one entry.
InitFiles ==
    {MissingFile, CorruptFile, YamlFile(<<>>), YamlFile(<<Entry("stable", "u1")>>)}

Init ==
    /\ file \in InitFiles
    /\ holder = NoProc
    /\ pc = [p \in Procs |-> "idle"]
    /\ entry = [p \in Procs |-> NoEntry]
    /\ locked = [p \in Procs |-> FALSE]
    /\ waited = [p \in Procs |-> 0]
    /\ b = [p \in Procs |-> MissingFile]
    /\ f = [p \in Procs |-> <<>>]
    /\ ret = [p \in Procs |-> "none"]
    /\ opRet = [p \in Procs |-> "none"]
    /\ calls = 0
    /\ last = [p \in Procs |-> NoLast]

\* --------------------------------------------------------- Apply / Upgrade
\* A process starts an operation for h = {RepoName: n, RepoURL: u}.
Begin(p, n, u) ==
    /\ pc[p] = "idle"
    /\ calls < MaxCalls
    /\ calls' = calls + 1
    /\ entry' = [entry EXCEPT ![p] = Entry(n, u)]
    /\ opRet' = [opRet EXCEPT ![p] = "none"]

\* Apply: actionConfig.Init succeeds; the next statement is repoAdd(h).
Apply(p) ==
    \E n \in Names, u \in URLs :
        /\ Begin(p, n, u)
        /\ pc' = [pc EXCEPT ![p] = "mkdir"]
        /\ UNCHANGED <<file, holder, locked, waited, b, f, ret, last>>

\* Upgrade: actionConfig.Init succeeds; the next statement is repoAdd(h).
Upgrade(p) ==
    \E n \in Names, u \in URLs :
        /\ Begin(p, n, u)
        /\ pc' = [pc EXCEPT ![p] = "mkdir"]
        /\ UNCHANGED <<file, holder, locked, waited, b, f, ret, last>>

\* ------------------------------------------------------------------ repoAdd
\* Return with the deferred unlock left out.
Return_NoUnlock(p, e) ==
    /\ ret' = [ret EXCEPT ![p] = e]
    /\ pc' = [pc EXCEPT ![p] = "locate"]
    /\ waited' = [waited EXCEPT ![p] = 0]
    /\ f' = [f EXCEPT ![p] = <<>>]
    /\ UNCHANGED <<holder, locked, entry, b, opRet, calls, last>>

\* `return e` from repoAdd: the deferred fileLock.Unlock() runs when it was
\* registered (`locked`), and control goes back to the caller, whose next
\* statement is LocateChart.
Return(p, e) ==
    /\ ret' = [ret EXCEPT ![p] = e]
    /\ pc' = [pc EXCEPT ![p] = "locate"]
    /\ holder' = IF locked[p] /\ holder = p THEN NoProc ELSE holder
    /\ locked' = [locked EXCEPT ![p] = FALSE]
    /\ waited' = [waited EXCEPT ![p] = 0]
    /\ f' = [f EXCEPT ![p] = <<>>]
    /\ UNCHANGED <<entry, b, opRet, calls, last>>

\* os.MkdirAll(filepath.Dir(repoFile), os.ModePerm) succeeds.
MkdirAll(p) ==
    /\ pc[p] = "mkdir"
    /\ pc' = [pc EXCEPT ![p] = "lock"]
    /\ UNCHANGED <<file, holder, entry, locked, waited, b, f, ret, opRet,
                   calls, last>>

\* os.MkdirAll fails: return err.
MkdirAllFail(p) ==
    /\ pc[p] = "mkdir"
    /\ Return(p, "ErrMkdir")
    /\ UNCHANGED file

\* What repoAdd does with the (locked, err) that TryLockContext returned:
\* with an error it returns it; without one it goes on to read the file,
\* and the unlock is deferred only when locked is true.
LockResult(p, ok, err) ==
    IF err # "nil"
    THEN Return(p, err)
    ELSE /\ locked' = [locked EXCEPT ![p] = ok]
         /\ holder' = IF ok THEN p ELSE holder
         /\ waited' = [waited EXCEPT ![p] = 0]
         /\ pc' = [pc EXCEPT ![p] = "read"]
         /\ UNCHANGED <<entry, b, f, ret, opRet, calls, last>>

\* TryLockOK on a lock that excludes nobody (a lock file of the process's own).
TryLockOK_NoExclusion(p) ==
    /\ pc[p] = "lock"
    /\ LockResult(p, TRUE, "nil")
    /\ UNCHANGED file

\* TryLockContext: TryLock takes the free lock, (true, nil).
TryLockOK(p) ==
    /\ pc[p] = "lock"
    /\ holder = NoProc
    /\ LockResult(p, TRUE, "nil")
    /\ UNCHANGED file

\* TryLockContext: TryLock itself fails (the lock file cannot be opened),
\* (false, err).
TryLockErr(p) ==
    /\ pc[p] = "lock"
    /\ LockResult(p, FALSE, "ErrLock")
    /\ UNCHANGED file

\* TryLockBusy with the deadline reported as (false, nil).
TryLockBusy_NilOnDeadline(p) ==
    /\ pc[p] = "lock"
    /\ holder # NoProc
    /\ \/ /\ (waited[p] + 1) * RetryDelaySec <= LockTimeoutSec
          /\ waited' = [waited EXCEPT ![p] = @ + 1]
          /\ UNCHANGED <<file, holder, pc, entry, locked, b, f, ret, opRet,
                         calls, last>>
       \/ /\ (waited[p] + 1) * RetryDelaySec >= LockTimeoutSec
          /\ LockResult(p, FALSE, "nil")
          /\ UNCHANGED file

\* TryLockBusy on a context without a deadline: it only ever retries.
TryLockBusy_NoDeadline(p) ==
    /\ pc[p] = "lock"
    /\ holder # NoProc
    /\ waited' = [waited EXCEPT ![p] =
                     IF (@ + 1) * RetryDelaySec <= LockTimeoutSec THEN @ + 1 ELSE @]
    /\ UNCHANGED <<file, holder, pc, entry, locked, b, f, ret, opRet, calls,
                   last>>

\* TryLockContext: the lock is held elsewhere, TryLock reports (false, nil)
\* and the call selects between the retry delay and the context's deadline.
\* Before the deadline it sleeps one retry delay and tries again; at the
\* deadline it returns (false, ctx.Err()), the deadline error.  When the
\* last retry delay ends at the deadline the select may take either case.
TryLockBusy(p) ==
    /\ pc[p] = "lock"
    /\ holder # NoProc
    /\ \/ /\ (waited[p] + 1) * RetryDelaySec <= LockTimeoutSec
          /\ waited' = [waited EXCEPT ![p] = @ + 1]
          /\ UNCHANGED <<file, holder, pc, entry, locked, b, f, ret, opRet,
                         calls, last>>
       \/ /\ (waited[p] + 1) * RetryDelaySec >= LockTimeoutSec
          /\ LockResult(p, FALSE, "ErrDeadline")
          /\ UNCHANGED file

\* b, err := os.ReadFile(repoFile); a missing file is no error and leaves b nil.
ReadFile(p) ==
    /\ pc[p] = "read"
    /\ b' = [b EXCEPT ![p] = file]
    /\ pc' = [pc EXCEPT ![p] = "unmarshal"]
    /\ UNCHANGED <<file, holder, entry, locked, waited, f, ret, opRet, calls,
                   last>>

\* ReadFileFail without the os.IsNotExist exemption.
ReadFileFail_NoNotExist(p) ==
    /\ pc[p] = "read"
    /\ Return(p, "ErrRead")
    /\ UNCHANGED file

\* os.ReadFile fails with an error other than "does not exist": return err.
ReadFileFail(p) ==
    /\ pc[p] = "read"
    /\ file.kind # "missing"
    /\ Return(p, "ErrRead")
    /\ UNCHANGED file

\* yaml.Unmarshal(b, &f) succeeds, then c := repo.Entry{...}
UnmarshalFile(p) ==
    /\ pc[p] = "unmarshal"
    /\ b[p].kind # "corrupt"
    /\ f' = [f EXCEPT ![p] = Unmarshal(b[p])]
    /\ pc' = [pc EXCEPT ![p] = "newrepo"]
    /\ UNCHANGED <<file, holder, entry, locked, waited, b, ret, opRet, calls,
                   last>>

\* yaml.Unmarshal fails: return err.
UnmarshalFail(p) ==
    /\ pc[p] = "unmarshal"
    /\ b[p].kind = "corrupt"
    /\ Return(p, "ErrParse")
    /\ UNCHANGED file

\* repo.NewChartRepository(&c, getter.All(settings)) succeeds, on either
\* branch of f.Has(h.RepoName).
NewChartRepository(p) ==
    /\ pc[p] = "newrepo"
    /\ pc' = [pc EXCEPT ![p] = "download"]
    /\ UNCHANGED <<file, holder, entry, locked, waited, b, f, ret, opRet,
                   calls, last>>

\* repo.NewChartRepository fails: return err.
NewChartRepositoryFail(p) ==
    /\ pc[p] = "newrepo"
    /\ Return(p, "ErrNewRepo")
    /\ UNCHANGED file

\* DownloadIndexFile with the stored entry of an existing name replaced.
DownloadIndexFile_Overwrite(p) ==
    /\ pc[p] = "download"
    /\ f' = [f EXCEPT ![p] = Update(@, entry[p])]
    /\ pc' = [pc EXCEPT ![p] = "write"]
    /\ UNCHANGED <<file, holder, entry, locked, waited, b, ret, opRet, calls,
                   last>>

\* DownloadIndexFile with the entry appended whatever the index holds.
DownloadIndexFile_AddAlways(p) ==
    /\ pc[p] = "download"
    /\ f' = [f EXCEPT ![p] = Append(@, entry[p])]
    /\ pc' = [pc EXCEPT ![p] = "write"]
    /\ UNCHANGED <<file, holder, entry, locked, waited, b, ret, opRet, calls,
                   last>>

\* r.DownloadIndexFile() succeeds.  For a name the index has: return nil.
\* For a new name: f.Update(&c), and the file is written next.
DownloadIndexFile(p) ==
    /\ pc[p] = "download"
    /\ IF Has(f[p], entry[p].name)
       THEN Return(p, "nil")
       ELSE /\ f' = [f EXCEPT ![p] = Update(@, entry[p])]
            /\ pc' = [pc EXCEPT ![p] = "write"]
            /\ UNCHANGED <<holder, entry, locked, waited, b, ret, opRet,
                           calls, last>>
    /\ UNCHANGED file

\* DownloadIndexFileFail with the entry written before the download.
DownloadIndexFileFail_PartialAdd(p) ==
    /\ pc[p] = "download"
    /\ file' = IF Has(f[p], entry[p].name) THEN file
                ELSE YamlFile(Update(f[p], entry[p]))
    /\ Return(p, IF Has(f[p], entry[p].name) THEN "ErrUpdate" ELSE "ErrInvalid")

\* r.DownloadIndexFile() fails: the wrapped error is returned, "unable to
\* update helm repo" for a name the index has, "not a valid chart
\* repository or cannot be reached" for a new name.
DownloadIndexFileFail(p) ==
    /\ pc[p] = "download"
    /\ Return(p, IF Has(f[p], entry[p].name) THEN "ErrUpdate" ELSE "ErrInvalid")
    /\ UNCHANGED file

\* f.WriteFile(repoFile, 0o644) succeeds: return nil.
WriteFile(p) ==
    /\ pc[p] = "write"
    /\ file' = YamlFile(f[p])
    /\ Return(p, "nil")

\* f.WriteFile fails: return err.  The file is taken to be as it was (the
\* write failed before any byte reached the file).
WriteFileFail(p) ==
    /\ pc[p] = "write"
    /\ Return(p, "ErrWrite")
    /\ UNCHANGED file

\* ---------------------------------------------- Apply / Upgrade, continued
\* The operation returns e to its caller.
Finish(p, e) ==
    /\ opRet' = [opRet EXCEPT ![p] = e]
    /\ pc' = [pc EXCEPT ![p] = "idle"]
    /\ last' = [last EXCEPT ![p] =
                   [name |-> entry[p].name, url |-> entry[p].url,
                    ret |-> IF ret[p] = "nil" THEN "nil" ELSE "err"]]
    /\ entry' = [entry EXCEPT ![p] = NoEntry]
    /\ ret' = [ret EXCEPT ![p] = "none"]
    /\ b' = [b EXCEPT ![p] = MissingFile]
    /\ UNCHANGED <<file, holder, locked, waited, f, calls>>

\* actionConfig.Init fails: the operation returns before repoAdd; Apply
\* wraps the error, Upgrade returns it as it is.
ConfigInitFail(p) ==
    \E o \in {"Apply", "Upgrade"} :
        /\ pc[p] = "idle"
        /\ calls < MaxCalls
        /\ calls' = calls + 1
        /\ opRet' = [opRet EXCEPT ![p] =
                        IF o = "Apply" THEN "ErrInitWrapped" ELSE "ErrInit"]
        /\ UNCHANGED <<file, holder, pc, entry, locked, waited, b, f, ret,
                       last>>

\* repoAdd(h) has returned and its result is dropped.  LocateChart fails:
\* return err.
LocateChartFail(p) ==
    /\ pc[p] = "locate"
    /\ Finish(p, "ErrLocate")

\* repoAdd(h) has returned and its result is dropped.  LocateChart succeeds;
\* then loader.Load, values.MergeValues and client.Run: the first error is
\* returned, nil otherwise.
RunChart(p) ==
    \E e \in {"nil", "ErrRun"} :
        /\ pc[p] = "locate"
        /\ Finish(p, e)

ProcNext(p) ==
    \/ Apply(p)
    \/ Upgrade(p)
    \/ ConfigInitFail(p)
    \/ MkdirAll(p)
    \/ MkdirAllFail(p)
    \/ TryLockOK(p)
    \/ TryLockErr(p)
    \/ TryLockBusy(p)
    \/ ReadFile(p)
    \/ ReadFileFail(p)
    \/ UnmarshalFile(p)
    \/ UnmarshalFail(p)
    \/ NewChartRepository(p)
    \/ NewChartRepositoryFail(p)
    \/ DownloadIndexFile(p)
    \/ DownloadIndexFileFail(p)
    \/ WriteFile(p)
    \/ WriteFileFail(p)
    \/ LocateChartFail(p)
    \/ RunChart(p)

Next == \E p \in Procs : ProcNext(p)

Spec == Init /\ [][Next]_vars

\* The statements of a call in progress, each with the outcomes that need no
\* fault of the environment: a scheduled process executes its next statement,
\* and nothing promises that a statement fails.
Progress(p) ==
    \/ MkdirAll(p)
    \/ TryLockOK(p)
    \/ TryLockBusy(p)
    \/ ReadFile(p)
    \/ UnmarshalFile(p)
    \/ UnmarshalFail(p)
    \/ NewChartRepository(p)
    \/ DownloadIndexFile(p)
    \/ WriteFile(p)
    \/ RunChart(p)

\* Process p1 is scheduled for as long as it has a call in progress; nothing
\* is assumed of the other process, which may stop anywhere, the lock held.
FairSpec == Spec /\ WF_vars(Progress("p1"))

\* ===================================================================== claims
\* Positions of repoAdd between the lock step and the return.
CS == {"read", "unmarshal", "newrepo", "download", "write"}

\* The process acts in this step.
Acts(p) == pc'[p] # pc[p] \/ waited'[p] # waited[p]

\* repoAdd returns in this step.
Returns(p) == pc[p] \notin {"idle", "locate"} /\ pc'[p] = "locate"

\* The index the file holds (a missing or unparsable file holds none).
Stored == IF file.kind = "yaml" THEN file.entries ELSE <<>>

UniqueNames(es) ==
    \A i, j \in 1..Len(es) : es[i].name = es[j].name => i = j

\* The stored URLs of name n.
URLsOf(es, n) == {es[i].url : i \in {j \in 1..Len(es) : es[j].name = n}}

C3_Idempotent ==
    [][ \A p \in Procs :
          ( /\ Acts(p)
            /\ last[p].ret = "nil"
            /\ last[p].name = entry[p].name
            /\ last[p].url = entry[p].url )
          => file' = file ]_vars

C3_Witness ==
    \E p \in Procs :
        /\ pc[p] = "locate"
        /\ ret[p] = "nil"
        /\ last[p].ret = "nil"
        /\ last[p].name = entry[p].name
        /\ last[p].url = entry[p].url
        /\ Stored = <<entry[p]>>

\* ---- C4
\* C4: a call for a name its index does not hold leaves the download step
\* either to write the file or with the "not a valid chart repository"
\* error; with the error, the file is what the call read and holds no entry
\* of that name.
C4_ReachabilityGating ==
    [][ \A p \in Procs :
          (pc[p] = "download" /\ Acts(p) /\ ~Has(f[p], entry[p].name))
          => /\ file' = file
             /\ \/ pc'[p] = "write"
                \/ /\ pc'[p] = "locate"
                   /\ ret'[p] = "ErrInvalid"
                   /\ file' = b[p]
                   /\ ~Has(IF file'.kind = "yaml" THEN file'.entries ELSE <<>>,
                           entry[p].name) ]_vars

C4_Witness ==
    \E p \in Procs :
        /\ pc[p] = "locate"
        /\ ret[p] = "ErrInvalid"
        /\ file = b[p]
        /\ ~Has(Stored, entry[p].name)

\* ---- C5
\* C5 as stated: when repoAdd returned an error, the operation returns that
\* error instead of going on to LocateChart.
C5_SyncErrorPropagates ==
    [][ \A p \in Procs :
          (pc[p] = "locate" /\ ret[p] # "nil" /\ pc'[p] = "idle")
          => opRet'[p] = ret[p] ]_vars

\* ---- C6
\* C6: a missing index file is read without an error and as an empty index:
\* the call then fails only at the accessor, the download or the write, and
\* when it returns nil the file is the index of the one entry passed in.
C6_MissingFile ==
    [][ \A p \in Procs :
          /\ (pc[p] = "read" /\ Acts(p) /\ file.kind = "missing")
             => pc'[p] = "unmarshal" /\ b'[p] = MissingFile
          /\ (pc[p] \in CS \ {"read"} /\ b[p].kind = "missing" /\ Returns(p))
             => /\ ret'[p] \in {"nil", "ErrNewRepo", "ErrInvalid", "ErrWrite"}
                /\ ret'[p] = "nil" => file' = YamlFile(<<entry[p]>>) ]_vars

C6_Witness ==
    \E p \in Procs :
        /\ pc[p] = "locate"
        /\ ret[p] = "nil"
        /\ b[p].kind = "missing"
        /\ file = YamlFile(<<entry[p]>>)

\* ---- C7
\* C7: a process that is not between the lock step and the return of
\* repoAdd holds no lock: every return path has released it.
C7_LockReleased ==
    \A p \in Procs :
        pc[p] \notin CS => holder # p /\ ~locked[p]

C7_Witness ==
    /\ \A p \in Procs : pc[p] = "locate"
    /\ {ret[p] : p \in Procs} = {"ErrWrite", "ErrUpdate"}
    /\ holder = NoProc

\* ---- C8
\* C8 as stated: when the bounded wait ends without the lock and not by an
\* error of the acquisition itself, the call continues to read the index
\* file without holding the lock.
C8_TimeoutSwallowed ==
    [][ \A p \in Procs :
          ( /\ pc[p] = "lock" /\ pc'[p] # "lock"
            /\ holder \notin {NoProc, p}
            /\ waited[p] * RetryDelaySec >= LockTimeoutSec
            /\ ret'[p] # "ErrLock" )
          => pc'[p] = "read" /\ ~locked'[p] ]_vars

\* C8 (amended): the call leaves the lock step either holding the lock, to
\* read the file, or with an error and the file untouched; the end of the
\* bounded wait is such an error (the context's deadline error), so a call
\* reads or writes the index file only while it holds the lock.
C8_LockStep ==
    [][ \A p \in Procs :
          /\ (pc[p] = "lock" /\ pc'[p] # "lock")
             => \/ pc'[p] = "read" /\ locked'[p] /\ holder' = p /\ holder = NoProc
                \/ /\ pc'[p] = "locate"
                   /\ ret'[p] \in {"ErrLock", "ErrDeadline"}
                   /\ file' = file
          /\ pc'[p] \in CS => holder' = p /\ locked'[p]
          /\ (Acts(p) /\ file' # file) => holder = p ]_vars

C8_Witness ==
    \E p \in Procs :
        /\ pc[p] = "locate"
        /\ ret[p] = "ErrDeadline"
        /\ holder \notin {NoProc, p}

\* ---- C9
\* C9: a call of a process that keeps running returns, whatever the other
\* process does; the lock step sleeps at most LockTimeoutSec / RetryDelaySec
\* retry delays, and every other step moves the call forward (none is done
\* again).
Rank(s) ==
    CASE s = "idle" -> 0
      [] s = "mkdir" -> 1
      [] s = "lock" -> 2
      [] s = "read" -> 3
      [] s = "unmarshal" -> 4
      [] s = "newrepo" -> 5
      [] s = "download" -> 6
      [] s = "write" -> 7
      [] s = "locate" -> 8

C9_BoundedWait ==
    /\ (pc["p1"] # "idle") ~> (pc["p1"] = "idle")
    /\ [](\A p \in Procs : waited[p] * RetryDelaySec <= LockTimeoutSec)
    /\ [][ \A p \in Procs :
             Acts(p) => \/ pc'[p] = "idle"
                        \/ Rank(pc'[p]) > Rank(pc[p])
                        \/ /\ pc[p] = "lock" /\ pc'[p] = "lock"
                           /\ holder # NoProc
                           /\ waited'[p] = waited[p] + 1 ]_vars

C9_Witness ==
    /\ pc["p1"] = "locate"
    /\ ret["p1"] = "ErrDeadline"
    /\ pc["p2"] = "download"
    /\ holder = "p2"

\* ---- C10
\* C10: the index file holds at most one entry of each name.
C10_UniqueNames == UniqueNames(Stored)

C10_Witness ==
    /\ pc["p1"] = "locate" /\ pc["p2"] = "locate"
    /\ ret["p1"] = "nil" /\ ret["p2"] = "nil"
    /\ entry["p1"].name = entry["p2"].name
    /\ entry["p1"].url # entry["p2"].url
    /\ Len(Stored) = 1

====
